---- MODULE Spec2Model ----
(***************************************************************************)
(* A model of src/script.js: the genre classifier page.  Two execution     *)
(* contexts exchange messages: the page (main thread) and the Essentia     *)
(* feature-extraction worker.  The page decodes a clip, sends it to the    *)
(* worker, feeds the returned feature grid to the TensorFlow.js model and  *)
(* displays the ranked probabilities.                                      *)
(*                                                                         *)
(* Numbers: mel energies are fixed-point in units of 1e-6, probabilities   *)
(* are fixed-point in units of 0.1.  The libraries the script calls        *)
(* (Essentia, TensorFlow.js, WaveSurfer, Plotly, the Web Audio decoder)    *)
(* are the environment: what they return, and whether they throw, is an    *)
(* input chosen with \E.                                                   *)
(***************************************************************************)
EXTENDS Integers, Sequences, FiniteSets, TLC

\* ------------------------------------------------------------ constants
MODEL_EXPECTED_SAMPLE_RATE == 22050
MODEL_INPUT_NUM_MELS == 64
MODEL_INPUT_NUM_FRAMES == 96
GENRE_CLASSES ==
  << "blues", "classical", "country", "disco", "hiphop",
     "jazz", "metal", "pop", "reggae", "rock" >>
\* 1e-6, the epsilon of the log compression, in units of 1e-6
LogEpsilon == 1
\* the value of a padding frame's bands
PadValue == -60
\* results.slice(0, 5)
TopK == 5

\* ------------------------------------------------------------ bounds
\* files handed to handleFile in one run
MaxFiles == 2
\* clicks on the classify button in one run
MaxClicks == 2
\* frames the mel spectrogram of a request may have
MaxMelFrames == 2
\* samples of a request posted to the worker alone
MaxSamples == 2
\* numFrames of a request posted to the worker alone
MaxNumFrames == 2
\* numMels of a request posted to the worker alone
MaxNumMels == 2
\* length of a probability vector handed to displayResults alone
MaxProbLen == 6
\* largest score (in tenths) of such a probability vector
MaxScore == 2

VARIABLES
  model,               \* "undefined" | "loaded": the global `model`
  loadPc,              \* loadModel(): "fetching" | "done" | "failed"
  currentAudioBuffer,  \* 0 (undefined) or the file whose decoded clip is held
  dom,                 \* the page elements the script reads and writes
  pendingFiles,        \* files whose handleFile awaits arrayBuffer/decodeAudioData
  fileCount,           \* handleFile calls so far
  wsLoads,             \* wavesurfer.load calls whose ready/error is to come
  inbox,               \* messages posted to the worker, not yet handled
  essentia,            \* the worker's `essentia`: "undefined" | "ready"
  workerPc,            \* the worker's init handler: "idle" | "importing" | "done"
  outbox,              \* messages posted by the worker, not yet handled
  inferences,          \* runInference calls suspended at `await prediction.data()`
  tensors,             \* tensors allocated and not disposed
  stage,               \* history: per dispatched attempt, the stage it reached
  phase,               \* history: the orchestrator state of the pipeline
  shown,               \* history: input and ranking of the last displayResults
  clicks               \* history: handleClassify calls so far

vars ==
  << model, loadPc, currentAudioBuffer, dom, pendingFiles, fileCount, wsLoads,
     inbox, essentia, workerPc, outbox, inferences, tensors, stage, phase,
     shown, clicks >>

pageVars ==
  << model, loadPc, currentAudioBuffer, dom, pendingFiles, fileCount, wsLoads,
     inferences, tensors, stage, phase, shown, clicks >>

workerVars == << inbox, essentia, workerPc, outbox >>

\* ------------------------------------------------------------ helpers
Min(a, b) == IF a < b THEN a ELSE b

Max(a, b) == IF a > b THEN a ELSE b

RECURSIVE SeqsUpTo(_, _)
\* all sequences over S of length at most n
SeqsUpTo(S, n) ==
  IF n = 0 THEN { <<>> }
  ELSE LET shorter == SeqsUpTo(S, n - 1)
       IN shorter \cup { Append(s, x) : s \in { t \in shorter : Len(t) = n - 1 }, x \in S }

\* ============================================================ the worker
\* Array.prototype.slice(0, end)
SliceFromZero(a, end) ==
  LET stop == IF end < 0 THEN Max(Len(a) + end, 0) ELSE Min(end, Len(a))
  IN SubSeq(a, 1, stop)

\* A frame (one row of a grid) is held by its length and the values of its
\* odd and even bands: [length, odd, even] stands for the array of `length`
\* numbers odd, even, odd, ...  A frame of one value in every band has
\* odd = even.
FrameLength(frame) == frame.length

\* frame[b - 1]: the value of band b, counted from 1
Band(frame, b) == IF b % 2 = 1 THEN frame.odd ELSE frame.even

\* Array(numMels).fill(-60)
PaddingFrame(numMels) == [length |-> numMels, odd |-> PadValue, even |-> PadValue]

PaddingFrameZero(numMels) == [length |-> numMels, odd |-> 0, even |-> 0]

\* a plausible slip: the padding loop stops one frame early
padOrTruncateShort(grid, numFrames, numMels) ==
  LET currentFrames == Len(grid)
  IN IF currentFrames > numFrames THEN SliceFromZero(grid, numFrames)
     ELSE IF currentFrames < numFrames - 1
          THEN grid \o [i \in 1..(numFrames - 1 - currentFrames) |-> PaddingFrame(numMels)]
          ELSE grid

\* a plausible slip: truncation keeps the last frames, padding goes in front
padOrTruncateTail(grid, numFrames, numMels) ==
  LET currentFrames == Len(grid)
  IN IF currentFrames > numFrames
     THEN SubSeq(grid, currentFrames - numFrames + 1, currentFrames)
     ELSE IF currentFrames < numFrames
          THEN [i \in 1..(numFrames - currentFrames) |-> PaddingFrame(numMels)] \o grid
          ELSE grid

\* a plausible slip: "pad with zeros", as the comment at line 129 says
padOrTruncateZeros(grid, numFrames, numMels) ==
  LET currentFrames == Len(grid)
  IN IF currentFrames > numFrames THEN SliceFromZero(grid, numFrames)
     ELSE IF currentFrames < numFrames
          THEN grid \o [i \in 1..(numFrames - currentFrames) |-> PaddingFrameZero(numMels)]
          ELSE grid

padOrTruncate(grid, numFrames, numMels) ==
  LET currentFrames == Len(grid)
  IN IF currentFrames > numFrames THEN SliceFromZero(grid, numFrames)
     ELSE IF currentFrames < numFrames
          THEN grid \o [i \in 1..(numFrames - currentFrames) |-> PaddingFrame(numMels)]
          ELSE grid

RECURSIVE Log10Floor(_)
\* floor(log10(x)) for x >= 1; exact on the powers of ten the model uses
Log10Floor(x) == IF x < 10 THEN 0 ELSE 1 + Log10Floor(x \div 10)

\* 10 * Math.log10(val + 1e-6), val in units of 1e-6
LogCompress(val) == 10 * (Log10Floor(val + LogEpsilon) - 6)

\* frame.map(val => 10 * Math.log10(val + 1e-6)) over every frame
LogGrid(melbands) ==
  [i \in 1..Len(melbands) |->
     [melbands[i] EXCEPT !.odd = LogCompress(@), !.even = LogCompress(@)]]

\* mel energies the library may return: 0 and 1 - 1e-6
Energies == { 0, 999999 }

\* the frames essentia.MelSpectrogram may return for numMels bands: odd bands
\* hold one energy and even bands another (every frame when numMels <= 2)
MelFrames(numMels) ==
  { [length |-> numMels, odd |-> e1, even |-> e2] : e1, e2 \in Energies }

\* essentia.MelSpectrogram(signal, ...).melbands: the library decides the
\* frames; the hop being at least one sample, there are at most Len(signal)
MelSpectrograms(signal, numMels) ==
  SeqsUpTo(MelFrames(numMels), Min(MaxMelFrames, Len(signal)))

\* essentia.Resample(signal, in, out).signal for positive rates: the length
\* scales by out / in (nearest earlier sample)
ResampleSignal(signal, rateIn, rateOut) ==
  [i \in 1..((Len(signal) * rateOut) \div rateIn) |->
     signal[Min(Len(signal), (((i - 1) * rateIn) \div rateOut) + 1)]]

\* what essentia.Resample may return when it does not throw: for a rate that
\* is not positive the script checks nothing and the library decides
Resamples(signal, rateIn, rateOut) ==
  IF rateIn > 0 /\ rateOut > 0
  THEN { ResampleSignal(signal, rateIn, rateOut) }
  ELSE { <<>>, signal }

\* a plausible slip: the test of line 82 inverted
NeedsResampleInverted(sampleRate, targetSr) == sampleRate = targetSr

\* if (sampleRate !== targetSr)
NeedsResample(sampleRate, targetSr) == sampleRate # targetSr

InitMsg == [type |-> "init"]

ReadyMsg == [type |-> "ready"]

ErrorMsg(req, message) == [type |-> "error", message |-> message, req |-> req]

\* the result message; `hist` is history the handlers never read: the request,
\* whether Resample ran, the signal handed to MelSpectrogram and melSpecGrid
ResultMsg(req, resampled, signal, grid) ==
  [ type |-> "result",
    features |-> padOrTruncate(grid, req.numFrames, req.numMels),
    req |-> req,
    hist |-> [resampled |-> resampled, signal |-> signal, melSpecGrid |-> grid] ]

\* onmessage, type === 'init', up to `await import(...)`
WorkerInitStart ==
  /\ inbox # <<>>
  /\ Head(inbox).type = "init"
  /\ workerPc = "idle"
  /\ workerPc' = "importing"
  /\ inbox' = Tail(inbox)
  /\ UNCHANGED << essentia, outbox >>
  /\ UNCHANGED pageVars

\* onmessage, type === 'init', after the import resolved
WorkerInitDone ==
  /\ workerPc = "importing"
  /\ workerPc' = "done"
  /\ essentia' = "ready"
  /\ outbox' = Append(outbox, ReadyMsg)
  /\ UNCHANGED inbox
  /\ UNCHANGED pageVars

\* onmessage, type === 'init': the import rejects, nothing catches it
WorkerInitFails ==
  /\ workerPc = "importing"
  /\ workerPc' = "failed"
  /\ UNCHANGED << inbox, essentia, outbox >>
  /\ UNCHANGED pageVars

\* a plausible slip: no try/catch around the extraction, so the TypeError of a
\* request handled with `essentia` still undefined is reported to nobody
WorkerProcessEarlySilent ==
  /\ inbox # <<>>
  /\ Head(inbox).type = "process"
  /\ essentia = "undefined"
  /\ inbox' = Tail(inbox)
  /\ UNCHANGED << essentia, workerPc, outbox >>
  /\ UNCHANGED pageVars

\* onmessage, type === 'process', with `essentia` still undefined:
\* essentia.arrayToVector throws a TypeError, which the catch reports
WorkerProcessEarly ==
  /\ inbox # <<>>
  /\ Head(inbox).type = "process"
  /\ essentia = "undefined"
  /\ inbox' = Tail(inbox)
  /\ outbox' = Append(outbox, ErrorMsg(Head(inbox), "TypeError"))
  /\ UNCHANGED << essentia, workerPc >>
  /\ UNCHANGED pageVars

\* onmessage, type === 'process': a library call throws, the catch reports it
WorkerProcessThrows ==
  /\ inbox # <<>>
  /\ Head(inbox).type = "process"
  /\ essentia = "ready"
  /\ inbox' = Tail(inbox)
  /\ outbox' = Append(outbox, ErrorMsg(Head(inbox), "EssentiaError"))
  /\ UNCHANGED << essentia, workerPc >>
  /\ UNCHANGED pageVars

\* onmessage, type === 'process': no library call throws
WorkerProcessOk ==
  /\ inbox # <<>>
  /\ Head(inbox).type = "process"
  /\ essentia = "ready"
  /\ LET req == Head(inbox)
         resampled == NeedsResample(req.sampleRate, req.targetSr)
     IN \E signal \in IF resampled
                      THEN Resamples(req.audioData, req.sampleRate, req.targetSr)
                      ELSE { req.audioData } :
          \E melbands \in MelSpectrograms(signal, req.numMels) :
            outbox' = Append(outbox, ResultMsg(req, resampled, signal, LogGrid(melbands)))
  /\ inbox' = Tail(inbox)
  /\ UNCHANGED << essentia, workerPc >>
  /\ UNCHANGED pageVars

\* ------------------------------------------------ the worker on its own
Samples == { 1, 2 }

Rates == { -1, 0, 1, 2 }

\* any process request a caller may post
ProcessRequests ==
  [ type : { "process" },
    audioData : SeqsUpTo(Samples, MaxSamples),
    sampleRate : Rates,
    targetSr : Rates,
    numMels : 1..MaxNumMels,
    numFrames : 0..MaxNumFrames,
    attempt : { 0 },
    clip : { 0 } ]

\* a caller posts a process request once the previous one was answered
PostProcess ==
  /\ \A i \in DOMAIN inbox : inbox[i].type # "process"
  /\ outbox = <<>>
  /\ \E req \in ProcessRequests : inbox' = Append(inbox, req)
  /\ UNCHANGED << essentia, workerPc, outbox >>
  /\ UNCHANGED pageVars

\* the caller takes the worker's message
TakeResponse ==
  /\ outbox # <<>>
  /\ outbox' = Tail(outbox)
  /\ UNCHANGED << inbox, essentia, workerPc >>
  /\ UNCHANGED pageVars

\* ============================================================ the page
\* updateStatus(message)
updateStatus(d, message) == [d EXCEPT !.statusMessage = message]

\* setLoading(isLoading, message = '')
setLoading(d, isLoading, message) ==
  IF isLoading
  THEN [d EXCEPT !.resultsSectionHidden = FALSE,
                 !.loaderHidden = FALSE,
                 !.resultsContentHidden = TRUE,
                 !.classifyBtnDisabled = TRUE,
                 !.statusMessage = IF message # "" THEN message ELSE "Processing..."]
  ELSE [d EXCEPT !.loaderHidden = TRUE,
                 !.resultsContentHidden = FALSE,
                 !.classifyBtnDisabled = FALSE,
                 !.statusMessage =
                    IF message # "" THEN message ELSE "Classification complete."]

NoChart == [labels |-> <<>>, values |-> <<>>]

\* a plausible slip: resetResults hides the results but keeps genre and chart
resetResultsKeepsOutcome(d) ==
  [d EXCEPT !.resultsSectionHidden = TRUE,
            !.resultsContentHidden = TRUE,
            !.loaderHidden = TRUE]

\* resetResults()
resetResults(d) ==
  [d EXCEPT !.resultsSectionHidden = TRUE,
            !.resultsContentHidden = TRUE,
            !.loaderHidden = TRUE,
            !.predictedGenre = "...",
            !.chart = NoChart]

\* ------------------------------------------------------------ ranking
\* GENRE_CLASSES[i] || 'Unknown' (i counted from 1 here)
GenreOf(i) == IF i \in DOMAIN GENRE_CLASSES THEN GENRE_CLASSES[i] ELSE "Unknown"

\* .map((prob, i) => ({ genre: ..., probability: prob }))
Labelled(probabilities) ==
  [i \in 1..Len(probabilities) |-> [genre |-> GenreOf(i), probability |-> probabilities[i]]]

\* (a, b) => b.probability - a.probability
Compare(a, b) == b.probability - a.probability

\* a plausible slip: an unstable sort, which puts x before its equals
InsertAtUnstable(run, x) ==
  LET later == { i \in 1..Len(run) : Compare(x, run[i]) <= 0 }
  IN IF later = {} THEN Len(run) + 1
     ELSE CHOOSE i \in later : \A j \in later : i <= j

\* where a stable sort puts x into the sorted run: before the first entry that
\* the comparator orders after x
InsertAt(run, x) ==
  LET later == { i \in 1..Len(run) : Compare(x, run[i]) < 0 }
  IN IF later = {} THEN Len(run) + 1
     ELSE CHOOSE i \in later : \A j \in later : i <= j

Insert(run, x, at) == SubSeq(run, 1, at - 1) \o << x >> \o SubSeq(run, at, Len(run))

RECURSIVE Sort(_)
\* Array.prototype.sort with the comparator: stable (ECMAScript 2019)
Sort(a) ==
  IF a = <<>> THEN <<>>
  ELSE LET run == Sort(SubSeq(a, 1, Len(a) - 1))
           x == a[Len(a)]
       IN Insert(run, x, InsertAt(run, x))

\* the local `results` of displayResults
Results(probabilities) == Sort(Labelled(probabilities))

\* a plausible slip: slice(1, 5), which drops the top entry from the chart
Top5Skipping(results) == SubSeq(results, 2, Min(TopK, Len(results)))

\* results.slice(0, 5)
Top5(results) == SliceFromZero(results, TopK)

\* results[0]
TopGenre(results) == results[1]

\* labels and values handed to drawChart
ChartOf(results) ==
  LET top5 == Top5(results)
  IN [ labels |-> [i \in 1..Len(top5) |-> top5[i].genre],
       values |-> [i \in 1..Len(top5) |-> top5[i].probability * 100] ]

\* displayResults(probabilities): the page after the call and whether it threw.
\* results[0] is undefined for an empty vector and `topGenre.genre` throws;
\* Plotly.newPlot may throw after the predicted genre was written
displayResults(d, probabilities, plotlyThrows) ==
  LET results == Results(probabilities)
  IN IF results = <<>>
     THEN [dom |-> d, threw |-> TRUE, results |-> results]
     ELSE LET d1 == [d EXCEPT !.predictedGenre = TopGenre(results).genre]
          IN IF plotlyThrows
             THEN [dom |-> d1, threw |-> TRUE, results |-> results]
             ELSE [ dom |-> setLoading([d1 EXCEPT !.chart = ChartOf(results)], FALSE, ""),
                    threw |-> FALSE,
                    results |-> results ]

\* ------------------------------------------------------------ loading
ReadyText == "Model loaded. Essentia.js ready. Select a file or record."

\* loadModel(): loadGraphModel and the warm-up predict succeed.  The tensor of
\* tf.zeros is never disposed; essentiaWorker is set by then (line 156)
LoadModelOk ==
  /\ loadPc = "fetching"
  /\ loadPc' = "done"
  /\ model' = "loaded"
  /\ tensors' = tensors \cup { [call |-> 0, name |-> "zeros"] }
  /\ dom' = updateStatus(dom, ReadyText)
  /\ UNCHANGED << inbox, essentia, workerPc, outbox,
                  currentAudioBuffer, pendingFiles, fileCount, wsLoads, inferences,
                  stage, phase, shown, clicks >>

\* loadModel(): loadGraphModel resolves and assigns `model`, the warm-up throws
LoadModelWarmupFails ==
  /\ loadPc = "fetching"
  /\ loadPc' = "failed"
  /\ model' = "loaded"
  /\ tensors' = tensors \cup { [call |-> 0, name |-> "zeros"] }
  /\ dom' = updateStatus(dom, "Error: Could not load the ML model.")
  /\ UNCHANGED << inbox, essentia, workerPc, outbox,
                  currentAudioBuffer, pendingFiles, fileCount, wsLoads, inferences,
                  stage, phase, shown, clicks >>

\* loadModel(): loadGraphModel rejects, `model` stays undefined
LoadModelFetchFails ==
  /\ loadPc = "fetching"
  /\ loadPc' = "failed"
  /\ dom' = updateStatus(dom, "Error: Could not load the ML model.")
  /\ UNCHANGED << inbox, essentia, workerPc, outbox,
                  model, tensors, currentAudioBuffer, pendingFiles, fileCount, wsLoads,
                  inferences, stage, phase, shown, clicks >>

\* ------------------------------------------------------------ files
\* the decoded clip of file f: its first channel and its sample rate (short
\* clips: one sample at the model's rate or at twice that rate)
AudioOf(f) ==
  [ samples |-> << f >>,
    sampleRate |-> IF f % 2 = 1 THEN 2 * MODEL_EXPECTED_SAMPLE_RATE
                   ELSE MODEL_EXPECTED_SAMPLE_RATE ]

\* handleFile(file) up to the first await (from the file input, a drop or
\* mediaRecorder.onstop).  handleDrop's refusal of a drop that is not audio
\* writes the status message only and is left out
HandleFile ==
  /\ fileCount < MaxFiles
  /\ fileCount' = fileCount + 1
  /\ pendingFiles' = pendingFiles \cup { fileCount + 1 }
  /\ dom' = updateStatus(resetResults(dom), "Loading audio file...")
  /\ UNCHANGED << inbox, essentia, workerPc, outbox,
                  model, loadPc, currentAudioBuffer, wsLoads, inferences, tensors,
                  stage, phase, shown, clicks >>

\* handleFile: arrayBuffer() and decodeAudioData resolved
FileDecoded ==
  \E f \in pendingFiles :
    /\ pendingFiles' = pendingFiles \ { f }
    /\ currentAudioBuffer' = f
    /\ wsLoads' = wsLoads + 1
    /\ dom' = updateStatus(dom, "Audio loaded. Ready to classify.")
    /\ phase' = "AudioReady"
    /\ UNCHANGED << inbox, essentia, workerPc, outbox,
                    model, loadPc, fileCount, inferences, tensors, stage, shown,
                    clicks >>

\* a plausible slip: the catch of handleFile drops the clip held so far
FileDecodeFailsDropsClip ==
  \E f \in pendingFiles :
    /\ pendingFiles' = pendingFiles \ { f }
    /\ currentAudioBuffer' = 0
    /\ dom' = updateStatus(dom, "Error: Could not decode audio file.")
    /\ UNCHANGED << inbox, essentia, workerPc, outbox,
                    model, loadPc, fileCount, wsLoads, inferences,
                    tensors, stage, phase, shown, clicks >>

\* handleFile: arrayBuffer() or decodeAudioData rejected
FileDecodeFails ==
  \E f \in pendingFiles :
    /\ pendingFiles' = pendingFiles \ { f }
    /\ dom' = updateStatus(dom, "Error: Could not decode audio file.")
    /\ UNCHANGED << inbox, essentia, workerPc, outbox,
                    model, loadPc, currentAudioBuffer, fileCount, wsLoads, inferences,
                    tensors, stage, phase, shown, clicks >>

\* wavesurfer.on('ready')
WavesurferReady ==
  /\ wsLoads > 0
  /\ wsLoads' = wsLoads - 1
  /\ dom' = [dom EXCEPT !.controlSectionHidden = FALSE, !.classifyBtnDisabled = FALSE]
  /\ UNCHANGED << inbox, essentia, workerPc, outbox,
                  model, loadPc, currentAudioBuffer, pendingFiles, fileCount,
                  inferences, tensors, stage, phase, shown, clicks >>

\* wavesurfer.on('error')
WavesurferError ==
  /\ wsLoads > 0
  /\ wsLoads' = wsLoads - 1
  /\ dom' = updateStatus(dom, "Error: Could not load audio file.")
  /\ UNCHANGED << inbox, essentia, workerPc, outbox,
                  model, loadPc, currentAudioBuffer, pendingFiles, fileCount,
                  inferences, tensors, stage, phase, shown, clicks >>

\* ------------------------------------------------------------ classify
\* the message handleClassify posts; `attempt` and `clip` are history the
\* worker never reads: the click that sent it and the file it was cut from
ProcessMsg(attempt, f) ==
  [ type |-> "process",
    audioData |-> AudioOf(f).samples,
    sampleRate |-> AudioOf(f).sampleRate,
    targetSr |-> MODEL_EXPECTED_SAMPLE_RATE,
    numMels |-> MODEL_INPUT_NUM_MELS,
    numFrames |-> MODEL_INPUT_NUM_FRAMES,
    attempt |-> attempt,
    clip |-> f ]

\* a plausible slip: the guard of line 377 tests the clip only
ClassifyReadyNoModelTest == currentAudioBuffer # 0

\* !(!currentAudioBuffer || !model)
ClassifyReady == currentAudioBuffer # 0 /\ model # "undefined"

\* handleClassify(): a click on the enabled classify button
HandleClassify ==
  /\ ~dom.classifyBtnDisabled
  /\ clicks < MaxClicks
  /\ clicks' = clicks + 1
  /\ IF ClassifyReady
     THEN /\ dom' = setLoading(dom, TRUE, "Extracting features...")
          /\ inbox' = Append(inbox, ProcessMsg(clicks + 1, currentAudioBuffer))
          /\ stage' = [stage EXCEPT ![clicks + 1] = "extracting"]
          /\ phase' = "Extracting"
     ELSE /\ dom' = updateStatus(dom, "Error: Audio or model not ready.")
          /\ stage' = [stage EXCEPT ![clicks + 1] = "rejected"]
          /\ UNCHANGED << inbox, phase >>
  /\ UNCHANGED << model, loadPc, currentAudioBuffer, pendingFiles, fileCount, wsLoads,
                  essentia, workerPc, outbox, inferences, tensors, shown >>

\* essentiaWorker.onmessage, type === 'ready'
OnWorkerReady ==
  /\ outbox # <<>>
  /\ Head(outbox).type = "ready"
  /\ outbox' = Tail(outbox)
  /\ dom' = updateStatus(dom, ReadyText)
  /\ UNCHANGED << model, loadPc, currentAudioBuffer, pendingFiles, fileCount, wsLoads,
                  inbox, essentia, workerPc, inferences, tensors, stage, phase,
                  shown, clicks >>

\* a plausible slip: the error branch reports the failure with updateStatus
\* and leaves the loading state as it is
OnWorkerErrorKeepsLoading ==
  /\ outbox # <<>>
  /\ Head(outbox).type = "error"
  /\ outbox' = Tail(outbox)
  /\ dom' = updateStatus(dom, "Feature extraction failed.")
  /\ stage' = [stage EXCEPT ![Head(outbox).req.attempt] = "error"]
  /\ phase' = "Error"
  /\ UNCHANGED << model, loadPc, currentAudioBuffer, pendingFiles, fileCount, wsLoads,
                  inbox, essentia, workerPc, inferences, tensors, shown, clicks >>

\* a plausible slip: the error branch posts the failed request again
OnWorkerErrorRetries ==
  /\ outbox # <<>>
  /\ Head(outbox).type = "error"
  /\ outbox' = Tail(outbox)
  /\ inbox' = Append(inbox, Head(outbox).req)
  /\ dom' = setLoading(dom, TRUE, "Extracting features...")
  /\ UNCHANGED << model, loadPc, currentAudioBuffer, pendingFiles, fileCount, wsLoads,
                  essentia, workerPc, inferences, tensors, stage, phase, shown, clicks >>

\* essentiaWorker.onmessage, type === 'error'
OnWorkerError ==
  /\ outbox # <<>>
  /\ Head(outbox).type = "error"
  /\ outbox' = Tail(outbox)
  /\ dom' = setLoading(dom, FALSE, "Feature extraction failed.")
  /\ stage' = [stage EXCEPT ![Head(outbox).req.attempt] = "error"]
  /\ phase' = "Error"
  /\ UNCHANGED << model, loadPc, currentAudioBuffer, pendingFiles, fileCount, wsLoads,
                  inbox, essentia, workerPc, inferences, tensors, shown, clicks >>

InputTensor(call) == [call |-> call, name |-> "input"]

PredictionTensor(call) == [call |-> call, name |-> "prediction"]

\* what the synchronous part of runInference may meet: tf.tensor/reshape
\* throws, model.predict throws, or it reaches `await prediction.data()`
InferenceStarts == { "tensorThrows", "predictThrows", "awaits" }

\* essentiaWorker.onmessage, type === 'result': runInference(features) up to
\* its return, its catch or its await
OnWorkerResult ==
  /\ outbox # <<>>
  /\ Head(outbox).type = "result"
  /\ outbox' = Tail(outbox)
  /\ LET req == Head(outbox).req
         loading == setLoading(dom, TRUE, "Classifying...")
         failed == setLoading(loading, FALSE, "Inference failed.")
     IN IF model = "undefined"
        THEN /\ dom' = setLoading(dom, FALSE, "Error: Model not loaded.")
             /\ stage' = [stage EXCEPT ![req.attempt] = "error"]
             /\ phase' = "Error"
             /\ UNCHANGED << tensors, inferences >>
        ELSE \E start \in InferenceStarts :
               /\ dom' = IF start = "awaits" THEN loading ELSE failed
               /\ stage' = [stage EXCEPT ![req.attempt] =
                              IF start = "awaits" THEN "classifying" ELSE "error"]
               /\ phase' = IF start = "awaits" THEN "Classifying" ELSE "Error"
               /\ tensors' =
                    tensors \cup
                      CASE start = "tensorThrows" -> {}
                        [] start = "predictThrows" -> { InputTensor(req.attempt) }
                        [] OTHER -> { InputTensor(req.attempt), PredictionTensor(req.attempt) }
               /\ inferences' =
                    IF start = "awaits"
                    THEN inferences \cup { [attempt |-> req.attempt, clip |-> req.clip] }
                    ELSE inferences
  /\ UNCHANGED << model, loadPc, currentAudioBuffer, pendingFiles, fileCount, wsLoads,
                  inbox, essentia, workerPc, shown, clicks >>

\* the vector of spec scenario A ([0.1] * 9 + [0.9]) in tenths
ScenarioA == << 1, 1, 1, 1, 1, 1, 1, 1, 1, 9 >>

\* what prediction.data() may resolve to on the page
ClassifierOutputs == { <<>>, ScenarioA }

\* a plausible slip: no catch around `await prediction.data()`, so a rejection
\* ends runInference without setLoading(false)
InferenceDataRejectsUncaught ==
  \E r \in inferences :
    /\ inferences' = inferences \ { r }
    /\ UNCHANGED << model, loadPc, currentAudioBuffer, pendingFiles, fileCount,
                    wsLoads, inbox, essentia, workerPc, outbox, shown, clicks,
                    tensors, dom, stage, phase >>

\* runInference: prediction.data() rejects; the catch disposes the prediction
InferenceDataRejects ==
  \E r \in inferences :
    /\ inferences' = inferences \ { r }
    /\ tensors' = tensors \ { PredictionTensor(r.attempt) }
    /\ dom' = setLoading(dom, FALSE, "Inference failed.")
    /\ stage' = [stage EXCEPT ![r.attempt] = "error"]
    /\ phase' = "Error"
    /\ UNCHANGED << model, loadPc, currentAudioBuffer, pendingFiles, fileCount,
                    wsLoads, inbox, essentia, workerPc, outbox, shown, clicks >>

\* runInference after `await prediction.data()`: both tensors are disposed and
\* displayResults runs; when it throws the catch reports it
InferenceResumes ==
  \E r \in inferences, probabilities \in ClassifierOutputs, plotlyThrows \in BOOLEAN :
    LET out == displayResults(dom, probabilities, plotlyThrows)
    IN /\ inferences' = inferences \ { r }
       /\ tensors' = tensors \ { InputTensor(r.attempt), PredictionTensor(r.attempt) }
       /\ dom' = IF out.threw THEN setLoading(out.dom, FALSE, "Inference failed.")
                 ELSE out.dom
       /\ stage' = [stage EXCEPT ![r.attempt] = IF out.threw THEN "error" ELSE "ready"]
       /\ phase' = IF out.threw THEN "Error" ELSE "ResultsReady"
       /\ shown' = [ attempt |-> r.attempt, clip |-> r.clip,
                     probabilities |-> probabilities, results |-> out.results,
                     threw |-> out.threw ]
       /\ UNCHANGED << model, loadPc, currentAudioBuffer, pendingFiles, fileCount,
                       wsLoads, inbox, essentia, workerPc, outbox, clicks >>

\* ============================================================ the system
\* the page once init() has run: the worker was created and sent 'init',
\* loadModel() awaits the model, nothing was loaded or shown
Init ==
  /\ model = "undefined"
  /\ loadPc = "fetching"
  /\ currentAudioBuffer = 0
  /\ dom = [ statusMessage |-> "",
             controlSectionHidden |-> TRUE,
             classifyBtnDisabled |-> TRUE,
             resultsSectionHidden |-> TRUE,
             loaderHidden |-> TRUE,
             resultsContentHidden |-> TRUE,
             predictedGenre |-> "...",
             chart |-> NoChart ]
  /\ pendingFiles = {}
  /\ fileCount = 0
  /\ wsLoads = 0
  /\ inbox = << InitMsg >>
  /\ essentia = "undefined"
  /\ workerPc = "idle"
  /\ outbox = <<>>
  /\ inferences = {}
  /\ tensors = {}
  /\ stage = [a \in 1..MaxClicks |-> "none"]
  /\ phase = "Idle"
  /\ shown = [ attempt |-> 0, clip |-> 0, probabilities |-> <<>>, results |-> <<>>,
               threw |-> FALSE ]
  /\ clicks = 0

Next ==
  \/ LoadModelOk
  \/ LoadModelWarmupFails
  \/ LoadModelFetchFails
  \/ HandleFile
  \/ FileDecoded
  \/ FileDecodeFails
  \/ WavesurferReady
  \/ WavesurferError
  \/ HandleClassify
  \/ OnWorkerReady
  \/ OnWorkerError
  \/ OnWorkerResult
  \/ InferenceDataRejects
  \/ InferenceResumes
  \/ WorkerInitStart
  \/ WorkerInitDone
  \/ WorkerInitFails
  \/ WorkerProcessEarly
  \/ WorkerProcessThrows
  \/ WorkerProcessOk

Spec == Init /\ [][Next]_vars

\* The event loops deliver: a message posted to the worker is handled, a
\* message posted to the page is handled, and a pending prediction.data()
\* settles.  Users and loaders owe nothing: files, clicks, the model load and
\* the visualizer may never come.
Delivery ==
  /\ WF_vars(WorkerInitStart)
  /\ WF_vars(WorkerProcessEarly \/ WorkerProcessThrows \/ WorkerProcessOk)
  /\ WF_vars(OnWorkerReady \/ OnWorkerError \/ OnWorkerResult)
  /\ WF_vars(InferenceDataRejects \/ InferenceResumes)

SpecLive == Init /\ [][Next]_vars /\ Delivery

\* ------------------------------------------------ the worker on its own
NextWorker ==
  \/ PostProcess
  \/ TakeResponse
  \/ WorkerInitStart
  \/ WorkerInitDone
  \/ WorkerInitFails
  \/ WorkerProcessEarly
  \/ WorkerProcessThrows
  \/ WorkerProcessOk

SpecWorker == Init /\ [][NextWorker]_vars

\* ------------------------------------------- displayResults on its own
\* every probability vector up to the bounds
ProbabilityVectors == SeqsUpTo(0..MaxScore, MaxProbLen)

\* displayResults(probabilities) called once on the page as init() left it
DisplayStep ==
  /\ shown.results = <<>>
  /\ ~shown.threw
  /\ \E probabilities \in ProbabilityVectors, plotlyThrows \in BOOLEAN :
       LET out == displayResults(dom, probabilities, plotlyThrows)
       IN /\ dom' = out.dom
          /\ shown' = [ attempt |-> 0, clip |-> 0, probabilities |-> probabilities,
                        results |-> out.results, threw |-> out.threw ]
  /\ UNCHANGED << model, loadPc, currentAudioBuffer, pendingFiles, fileCount,
                  wsLoads, inferences, tensors, stage, phase, clicks >>
  /\ UNCHANGED workerVars

SpecRank == Init /\ [][DisplayStep]_vars

\* ============================================================ properties
\* the worker's answers that carry a feature grid
ResultsPosted == { i \in DOMAIN outbox : outbox[i].type = "result" }

\* C1: whatever grid of F >= 0 frames of numMels bands the spectrogram has and
\* whatever numFrames the request names, the grid the worker posts has exactly
\* numFrames frames and each of them has numMels bands.
C1_ExactShape ==
  \A i \in ResultsPosted :
    LET m == outbox[i]
    IN /\ \A j \in DOMAIN m.hist.melSpecGrid :
            FrameLength(m.hist.melSpecGrid[j]) = m.req.numMels
       /\ Len(m.features) = m.req.numFrames
       /\ \A j \in DOMAIN m.features : FrameLength(m.features[j]) = m.req.numMels

\* a spectrogram of two frames of two bands was cut to one frame
C1_Witness ==
  \E i \in ResultsPosted :
       /\ outbox[i].req.numFrames = 1
       /\ Len(outbox[i].hist.melSpecGrid) = 2
       /\ outbox[i].req.numMels = 2

\* C2: the leading frames are kept in order: with F >= N the N posted frames
\* are the first N frames of the spectrogram (all of them when F = N), with
\* F < N the first F posted frames are the frames of the spectrogram.
C2_LeadingFramesKept ==
  \A i \in ResultsPosted :
    LET m == outbox[i]
        grid == m.hist.melSpecGrid
        kept == Min(Len(grid), m.req.numFrames)
    IN /\ Len(m.features) >= kept
       /\ \A j \in 1..kept : m.features[j] = grid[j]
       /\ Len(grid) = m.req.numFrames => m.features = grid

\* two different frames were cut to the first of them
C2_Witness ==
  \E i \in ResultsPosted :
    /\ outbox[i].req.numFrames = 1
    /\ Len(outbox[i].hist.melSpecGrid) = 2
    /\ outbox[i].hist.melSpecGrid[1] # outbox[i].hist.melSpecGrid[2]
    /\ outbox[i].features = << outbox[i].hist.melSpecGrid[1] >>

\* C3: with F < N exactly N - F frames follow the F frames of the spectrogram
\* and each of them holds -60 in every one of its numMels bands; a spectrogram
\* of no frame is posted as N frames of -60.
C3_PaddingIsFloor ==
  \A i \in ResultsPosted :
    LET m == outbox[i]
        F == Len(m.hist.melSpecGrid)
        N == m.req.numFrames
    IN F < N =>
         /\ Len(m.features) - F = N - F
         /\ \A j \in (F + 1)..Len(m.features) :
              /\ FrameLength(m.features[j]) = m.req.numMels
              /\ \A b \in 1..m.req.numMels : Band(m.features[j], b) = -60

\* a spectrogram of no frame was filled to two frames of two bands
C3_Witness ==
  \E i \in ResultsPosted :
    /\ outbox[i].hist.melSpecGrid = <<>>
    /\ outbox[i].req.numFrames = 2
    /\ outbox[i].req.numMels = 2
    /\ Len(outbox[i].features) = 2

\* C4: when the request's sampleRate equals its targetSr the worker does not
\* call Resample and MelSpectrogram is handed the request's samples as they
\* came.
C4_EqualRatesNoResample ==
  \A i \in ResultsPosted :
    LET m == outbox[i]
    IN m.req.sampleRate = m.req.targetSr =>
         /\ ~m.hist.resampled
         /\ m.hist.signal = m.req.audioData

\* a request of two samples at equal positive rates was answered with a grid
C4_Witness ==
  \E i \in ResultsPosted :
    /\ outbox[i].req.sampleRate = 2
    /\ outbox[i].req.targetSr = 2
    /\ Len(outbox[i].req.audioData) = 2
    /\ outbox[i].hist.signal = outbox[i].req.audioData

\* C5 (as claimed): a request whose sampleRate or targetSr is not positive is
\* answered with an error and never with a feature grid.
C5_InvalidRateRejected ==
  \A i \in DOMAIN outbox :
    (outbox[i].type \in { "result", "error" }
       /\ (outbox[i].req.sampleRate <= 0 \/ outbox[i].req.targetSr <= 0))
      => outbox[i].type = "error"

\* the place of a genre among GENRE_CLASSES: the index its score came from
IndexOfGenre(genre) == CHOOSE i \in DOMAIN GENRE_CLASSES : GENRE_CLASSES[i] = genre

RECURSIVE SumOf(_)
SumOf(scores) == IF scores = <<>> THEN 0 ELSE scores[1] + SumOf(Tail(scores))

\* C6: the ranking displayResults builds is a permutation of the vector, label
\* i with score i: as long as the vector, every score beside the label of its
\* index, no index twice, the same sum, scores never rising, and entries of
\* equal score in the order of their indices.
C6_RankingIsStablePermutation ==
  LET p == shown.probabilities
      r == shown.results
      at == [k \in DOMAIN r |-> IndexOfGenre(r[k].genre)]
  IN /\ Len(r) = Len(p)
     /\ \A k \in DOMAIN r : at[k] \in DOMAIN p /\ r[k].probability = p[at[k]]
     /\ \A k, l \in DOMAIN r : k # l => at[k] # at[l]
     /\ SumOf([k \in DOMAIN r |-> r[k].probability]) = SumOf(p)
     /\ \A k \in DOMAIN r : k < Len(r) => r[k].probability >= r[k + 1].probability
     /\ \A k, l \in DOMAIN r :
          (k < l /\ r[k].probability = r[l].probability) => at[k] < at[l]

\* two ties out of order were ranked: 0.2 of index 2, 0.2 of index 4, then
\* 0.1 of index 1, 0.1 of index 3
C6_Witness ==
  /\ shown.probabilities = << 1, 2, 1, 2 >>
  /\ [k \in DOMAIN shown.results |-> shown.results[k].genre]
       = << "classical", "disco", "blues", "country" >>

\* C7: after displayResults returned, the predicted genre is the label of the
\* highest score (of the lowest index among equals) and the chart holds the
\* first min(5, length) entries of the ranking, each with its label and its
\* score times 100.
C7_TopGenreAndTopFive ==
  (shown.results # <<>> /\ ~shown.threw) =>
    LET p == shown.probabilities
        best == CHOOSE i \in DOMAIN p :
                  \A j \in DOMAIN p : p[i] > p[j] \/ (p[i] = p[j] /\ i <= j)
        k5 == IF Len(p) < 5 THEN Len(p) ELSE 5
    IN /\ dom.predictedGenre = GenreOf(best)
       /\ Len(dom.chart.labels) = k5
       /\ Len(dom.chart.values) = k5
       /\ \A k \in 1..k5 :
            /\ dom.chart.labels[k] = shown.results[k].genre
            /\ dom.chart.values[k] = shown.results[k].probability * 100

\* six scores with the highest, 0.2, at index 3 and again at index 5: the
\* genre shown is that of index 3 and the chart holds five bars, the first 20%
C7_Witness ==
  /\ shown.probabilities = << 0, 1, 2, 1, 2, 0 >>
  /\ ~shown.threw
  /\ dom.predictedGenre = "country"
  /\ Len(dom.chart.labels) = 5
  /\ dom.chart.values[1] = 200
  /\ dom.chart.labels[2] = "hiphop"

\* the attempts whose runInference call has finished
Finished == { a \in DOMAIN stage : stage[a] \in { "ready", "error" } }

\* C8 (as claimed): once a runInference call has finished, on whatever path,
\* no tensor it created is still allocated.
C8_TensorsReleased ==
  \A a \in Finished : \A t \in tensors : t.call # a

\* C9: handleClassify called while `model` is undefined sends nothing to the
\* worker and changes nothing on the page but the status message, which
\* reports that the model is not ready; called with the model loaded and a clip
\* held, it sends that clip to the worker and shows the extraction as running,
\* whether or not an earlier call was refused.
C9_UnavailableOnlyReports ==
  [][ HandleClassify =>
        IF model = "undefined"
        THEN /\ inbox' = inbox
             /\ dom' = [dom EXCEPT !.statusMessage = "Error: Audio or model not ready."]
             /\ UNCHANGED << model, loadPc, currentAudioBuffer, outbox, inferences,
                             tensors, phase, shown >>
        ELSE currentAudioBuffer # 0 =>
               /\ Len(inbox') = Len(inbox) + 1
               /\ inbox'[Len(inbox')].type = "process"
               /\ inbox'[Len(inbox')].clip = currentAudioBuffer
               /\ inbox'[Len(inbox')].audioData = AudioOf(currentAudioBuffer).samples
               /\ phase' = "Extracting"
               /\ ~dom'.loaderHidden
               /\ dom'.statusMessage = "Extracting features..." ]_vars

\* a click was refused for want of the model, the model was loaded since and a
\* later click has its request on the way to the worker
C9_Witness ==
  /\ model = "loaded"
  /\ loadPc = "done"
  /\ \E a, b \in DOMAIN stage :
       /\ a < b
       /\ stage[a] = "rejected"
       /\ stage[b] = "extracting"
       /\ \E i \in DOMAIN inbox : inbox[i].type = "process" /\ inbox[i].attempt = b

\* C10 (as claimed): runInference starts for an attempt only on the worker's
\* result for that attempt and from the orchestrator state Extracting; the
\* results of an attempt are displayed only after its predict returned and
\* from the orchestrator state Classifying.
C10_PipelineOrder ==
  [][ \A a \in DOMAIN stage :
        /\ (stage'[a] = "classifying" /\ stage[a] # "classifying") =>
             /\ stage[a] = "extracting"
             /\ outbox # <<>>
             /\ Head(outbox).type = "result"
             /\ Head(outbox).req.attempt = a
             /\ phase = "Extracting"
        /\ (stage'[a] = "ready" /\ stage[a] # "ready") =>
             /\ stage[a] = "classifying"
             /\ phase = "Classifying" ]_vars

\* the attempts dispatched and not yet finished
InFlight == { a \in DOMAIN stage : stage[a] \in { "extracting", "classifying" } }

\* C11: when the page takes the worker's error for an attempt, that attempt was
\* extracting and is now failed, the orchestrator is in Error, no tensor was
\* made and no inference started, the status message reports the failed
\* extraction, the loader is hidden and the classify button enabled, and the
\* page still holds the clip and the model a further click needs.
C11_ExtractionFailureReported ==
  [][ (outbox # <<>> /\ Head(outbox).type = "error" /\ outbox' = Tail(outbox)) =>
        LET a == Head(outbox).req.attempt
        IN /\ stage[a] = "extracting"
           /\ stage'[a] = "error"
           /\ phase' = "Error"
           /\ tensors' = tensors
           /\ inferences' = inferences
           /\ dom'.statusMessage = "Feature extraction failed."
           /\ dom'.loaderHidden
           /\ ~dom'.classifyBtnDisabled
           /\ currentAudioBuffer' = currentAudioBuffer
           /\ currentAudioBuffer' # 0
           /\ model' = "loaded" ]_vars

\* the first attempt failed in the worker and a second click was accepted: its
\* request is on the way
C11_Witness ==
  /\ stage[1] = "error"
  /\ stage[2] = "extracting"
  /\ \A t \in tensors : t.call # 1
  /\ \E i \in DOMAIN inbox : inbox[i].type = "process" /\ inbox[i].attempt = 2

\* C12 (as claimed): whenever the last event of the pipeline was the failure of
\* an attempt, the results content is not visible: it is hidden, or the results
\* section around it is.
C12_ResultsHiddenOnFailure ==
  phase = "Error" => (dom.resultsSectionHidden \/ dom.resultsContentHidden)

\* what is on its way for attempt a: requests, answers, suspended inferences
Pending(a) ==
  { i \in DOMAIN inbox : inbox[i].type = "process" /\ inbox[i].attempt = a }
    \cup { Len(inbox) + i : i \in { j \in DOMAIN outbox :
                                      outbox[j].type # "ready" /\ outbox[j].req.attempt = a } }
    \cup { Len(inbox) + Len(outbox) + r.attempt : r \in { q \in inferences : q.attempt = a } }

\* C13: a process request is posted only by a click and one per click; an
\* attempt has at most one request, answer or inference on its way; once an
\* attempt has failed nothing of it is on its way, it stays failed, and no
\* tensor is made for it any more.
C13_NoAutomaticRetry ==
  /\ [](\A a \in DOMAIN stage :
          /\ Cardinality(Pending(a)) <= 1
          /\ stage[a] = "error" => Pending(a) = {})
  /\ [][ /\ Len(inbox') > Len(inbox) =>
              /\ clicks' = clicks + 1
              /\ inbox' = Append(inbox, ProcessMsg(clicks', currentAudioBuffer))
         /\ \A a \in DOMAIN stage :
              stage[a] = "error" =>
                /\ stage'[a] = "error"
                /\ \A t \in tensors' \ tensors : t.call # a ]_vars

\* an attempt failed in the worker, the page holds all a retry would need, and
\* nothing is on its way to or from the worker
C13_Witness ==
  /\ stage[1] = "error"
  /\ dom.statusMessage = "Feature extraction failed."
  /\ ClassifyReady
  /\ inbox = <<>>
  /\ outbox = <<>>
  /\ inferences = {}

\* C14: when the decoding of a file fails (the file stops pending and
\* nothing is handed to the visualizer), the clip held is the clip held before,
\* nothing is posted to the worker, the orchestrator state and every attempt
\* stay as they were, and the status message reports the failed decoding.
C14_DecodeFailureKeepsState ==
  [][ (pendingFiles' # pendingFiles /\ pendingFiles' \subseteq pendingFiles
         /\ wsLoads' = wsLoads) =>
        /\ currentAudioBuffer' = currentAudioBuffer
        /\ inbox' = inbox
        /\ phase' = phase
        /\ stage' = stage
        /\ model' = model
        /\ dom'.statusMessage = "Error: Could not decode audio file."
        /\ dom'.classifyBtnDisabled = dom.classifyBtnDisabled ]_vars

\* the first file is held, the second could not be decoded, and nothing was
\* sent to the worker
C14_Witness ==
  /\ currentAudioBuffer = 1
  /\ fileCount = 2
  /\ pendingFiles = {}
  /\ dom.statusMessage = "Error: Could not decode audio file."
  /\ phase = "AudioReady"
  /\ \A i \in DOMAIN inbox : inbox[i].type # "process"

\* C15 (as claimed): when loadModel has reported its failure, no attempt was
\* ever dispatched: every click was refused.
C15_FailedLoadRejectsClassify ==
  loadPc = "failed" => \A a \in DOMAIN stage : stage[a] \in { "none", "rejected" }

\* the worker's handling of the process request at the head of its queue
WorkerProcess == WorkerProcessEarly \/ WorkerProcessThrows \/ WorkerProcessOk

\* C16: a process request at the head of the worker's queue can always be
\* handled, whether or not init has completed; the step that takes it posts
\* exactly one message, for that request, which is either a result with the
\* grid of numFrames frames and no message, or an error with a message and no
\* grid; and the worker posts a result or an error in no other step.
C16_OneResponsePerRequest ==
  /\ []((inbox # <<>> /\ Head(inbox).type = "process") => ENABLED WorkerProcess)
  /\ [][ /\ (inbox # <<>> /\ Head(inbox).type = "process" /\ inbox' = Tail(inbox)) =>
              /\ Len(outbox') = Len(outbox) + 1
              /\ SubSeq(outbox', 1, Len(outbox)) = outbox
              /\ LET m == outbox'[Len(outbox')]
                 IN /\ m.req = Head(inbox)
                    /\ \/ /\ m.type = "result"
                          /\ DOMAIN m = { "type", "features", "req", "hist" }
                          /\ Len(m.features) = m.req.numFrames
                       \/ /\ m.type = "error"
                          /\ DOMAIN m = { "type", "message", "req" }
                          /\ m.message # ""
         /\ (Len(outbox') > Len(outbox) /\ outbox'[Len(outbox')].type # "ready") =>
              /\ inbox # <<>>
              /\ Head(inbox).type = "process"
              /\ inbox' = Tail(inbox) ]_vars

\* a request posted before the import of init resolved was answered, with an
\* error, while init is still importing
C16_Witness ==
  /\ workerPc = "importing"
  /\ essentia = "undefined"
  /\ inbox = <<>>
  /\ Len(outbox) = 1
  /\ outbox[1].type = "error"
  /\ outbox[1].req.type = "process"

\* C17: with messages delivered and prediction.data() settling, every attempt
\* that was dispatched finishes, displayed or failed; and the step that
\* finishes an attempt leaves the orchestrator in ResultsReady or Error with
\* the loader hidden and the classify button enabled.
C17_AttemptsTerminate ==
  /\ \A a \in 1..MaxClicks :
       (stage[a] \in { "extracting", "classifying" }) ~> (stage[a] \in { "ready", "error" })
  /\ [][ \A a \in 1..MaxClicks :
           (stage[a] \in { "extracting", "classifying" } /\ stage'[a] \in { "ready", "error" }) =>
             /\ phase' = IF stage'[a] = "ready" THEN "ResultsReady" ELSE "Error"
             /\ dom'.loaderHidden
             /\ ~dom'.classifyBtnDisabled ]_vars

\* one attempt ended displayed and another failed, nothing is on its way, the
\* loader is hidden and the button enabled
C17_Witness ==
  /\ \E a, b \in DOMAIN stage : stage[a] = "ready" /\ stage[b] = "error"
  /\ inbox = <<>>
  /\ outbox = <<>>
  /\ inferences = {}
  /\ dom.loaderHidden
  /\ ~dom.classifyBtnDisabled

\* C18: when a file is decoded while the orchestrator is in Error or
\* ResultsReady and the page still says "Loading audio file..." (the file was
\* handed over after the attempt ended and nothing happened since), the
\* orchestrator is in AudioReady holding the new clip, the results section and
\* content are hidden, the predicted genre is the placeholder, the chart is
\* empty, the status message says the audio is loaded, and a click on classify
\* would be accepted.
C18_NewClipClearsOutcome ==
  [][ (wsLoads' = wsLoads + 1
         /\ phase \in { "Error", "ResultsReady" }
         /\ dom.statusMessage = "Loading audio file...") =>
        /\ phase' = "AudioReady"
        /\ currentAudioBuffer' \in pendingFiles
        /\ dom'.resultsSectionHidden
        /\ dom'.resultsContentHidden
        /\ dom'.loaderHidden
        /\ dom'.predictedGenre = "..."
        /\ dom'.chart = NoChart
        /\ dom'.statusMessage = "Audio loaded. Ready to classify."
        /\ ~dom'.classifyBtnDisabled
        /\ ClassifyReady' ]_vars

\* the results of the first clip were displayed, then the second file was
\* handed over and decoded: it is held and nothing of the first outcome shows
C18_Witness ==
  /\ stage[1] = "ready"
  /\ shown.clip = 1
  /\ ~shown.threw
  /\ currentAudioBuffer = 2
  /\ phase = "AudioReady"
  /\ dom.predictedGenre = "..."
  /\ dom.chart = NoChart
  /\ dom.resultsSectionHidden
  /\ dom.statusMessage = "Audio loaded. Ready to classify."
  /\ ~dom.classifyBtnDisabled

\* C19 (as claimed): at most one attempt is in flight, and while an attempt is
\* in flight the classify button is disabled.
C19_OneAttemptInFlight ==
  /\ Cardinality(InFlight) <= 1
  /\ InFlight # {} => dom.classifyBtnDisabled

\* C20 (as claimed): whenever the orchestrator is in ResultsReady, the results
\* displayed were computed from the clip the page holds.
C20_ResultsOfHeldClip ==
  phase = "ResultsReady" => shown.clip = currentAudioBuffer

\* C21 (as claimed): files are numbered in the order they were handed to
\* handleFile; when a decode resolves, the clip held afterwards is never that
\* of a file requested earlier than the one held before, so that after two
\* overlapping loads the clip of the later request is held whichever decode
\* finished first.
C21_LatestRequestedClipHeld ==
  [][ wsLoads' = wsLoads + 1 => currentAudioBuffer' >= currentAudioBuffer ]_vars
====
